---------------------------- MODULE Spec2Model ----------------------------
(***************************************************************************)
(* A model of namescan's command-line driver, src/namescan/cli.py: the     *)
(* coroutine main().  One run validates its input, selects the platforms,  *)
(* optionally prefetches tokens (asyncio.gather), launches one             *)
(* availability check per (username, platform), consumes the checks in     *)
(* completion order (asyncio.as_completed), and reports per username.      *)
(***************************************************************************)
EXTENDS Integers, Sequences, FiniteSets, TLC

(***************************************************************************)
(* Bounds of the model.                                                    *)
(***************************************************************************)
\* longest list of positional USERNAME arguments
MaxArgs == 2
\* longest --restrict list
MaxRestrict == 2
\* most availability checks one run launches
MaxTasks == 3

(***************************************************************************)
(* The environment: command-line words, files, the platform registry.      *)
(***************************************************************************)
UsernamePool == {"alice", "bob"}

\* words that may follow --restrict
RestrictNames == {"github", "Snapchat", "bogus"}

\* values of --input-file: absent, a readable file, a file that is not there
NoFile == "none"
InputFiles == {NoFile, "names.txt", "missing.txt"}

\* --restrict absent (None); an empty list is the other falsy value
NoRestrict == <<"--">>

\* the members of the Platforms enumeration, in definition order
Platforms == <<"SNAPCHAT", "GITHUB", "INSTAGRAM">>

PlatformNames == {Platforms[i] : i \in 1..Len(Platforms)}

\* a lookup that takes the word as it is written
UpperForgotten(p) == p

\* str.upper() on the words of the model
Upper(p) ==
    CASE p = "github" -> "GITHUB"
      [] p = "Snapchat" -> "SNAPCHAT"
      [] p = "bogus" -> "BOGUS"
      [] OTHER -> p

\* the order of str.__lt__ on the platform names
NameOrd(n) ==
    CASE n = "GITHUB" -> 1
      [] n = "INSTAGRAM" -> 2
      [] n = "SNAPCHAT" -> 3
      [] OTHER -> 0

\* messages a response may carry
Messages == {"m1", "m2"}

\* main() reads the message of a response only when the response is not
\* valid (line 91), so one message stands for all those of a valid one
MessagesOf(valid) == IF valid THEN {"m1"} ELSE Messages

\* exceptions an awaited check may raise: aiohttp.ClientError, KeyError,
\* asyncio.TimeoutError (a request that timed out), and any other
ExceptionKinds == {"ClientError", "KeyError", "TimeoutError", "RuntimeError"}

(***************************************************************************)
(* Sequences.                                                              *)
(***************************************************************************)
Range(s) == {s[i] : i \in 1..Len(s)}

SeqsUpTo(S, n) == UNION {[1..k -> S] : k \in 0..n}

RECURSIVE Dedup(_)
\* list(dict.fromkeys(s)): first occurrences, in order
Dedup(s) ==
    IF s = <<>> THEN <<>>
    ELSE LET front == Dedup(SubSeq(s, 1, Len(s) - 1))
             last == s[Len(s)]
         IN IF last \in Range(front) THEN front ELSE Append(front, last)

RECURSIVE InsertByKey(_, _)
\* the pair p = <<key, element>> goes after every pair whose key is not
\* greater than its own
InsertByKey(s, p) ==
    IF s = <<>> THEN <<p>>
    ELSE IF s[Len(s)][1] <= p[1] THEN Append(s, p)
    ELSE Append(InsertByKey(SubSeq(s, 1, Len(s) - 1), p), s[Len(s)])

RECURSIVE StableSortPairs(_)
\* a stable sort of <<key, element>> pairs, ascending on the key
StableSortPairs(s) ==
    IF s = <<>> THEN <<>>
    ELSE InsertByKey(StableSortPairs(SubSeq(s, 1, Len(s) - 1)), s[Len(s)])

Elements(pairs) == [i \in 1..Len(pairs) |-> pairs[i][2]]

(***************************************************************************)
(* The report's order: two stable sorts, lines 79-80.                      *)
(***************************************************************************)
\* attrgetter('platform.name')
NameKey(r) == NameOrd(r.platform)

\* attrgetter('valid', 'success') as a number: tuples compare
\* lexicographically and False < True
ValidSuccessKey(r) ==
    (IF r.valid THEN 2 ELSE 0) + (IF r.success THEN 1 ELSE 0)

\* responses.sort(key=attrgetter('platform.name'))
SortByName(s) ==
    Elements(StableSortPairs([i \in 1..Len(s) |-> <<NameKey(s[i]), s[i]>>]))

\* responses.sort(key=attrgetter('valid', 'success'), reverse=True):
\* descending, and still stable
SortByValidSuccess(s) ==
    Elements(StableSortPairs(
        [i \in 1..Len(s) |-> <<0 - ValidSuccessKey(s[i]), s[i]>>]))

SortResponses(s) == SortByValidSuccess(SortByName(s))

\* an except clause that catches every exception
CaughtAll == ExceptionKinds

\* the except clause of line 72
Caught == {"ClientError", "KeyError"}

\* a condition that forgets --available-only
RetainedAlways(available_only, response) == TRUE

\* the condition of line 69
Retained(available_only, response) ==
    (available_only /\ response.valid) \/ ~available_only

\* a loop that drops the failure instead of recording it
RecordFailureDropped(failures, kind) == failures

\* line 73: exceptions.append(...) of the exception's type name
RecordFailure(failures, kind) == Append(failures, kind)

(***************************************************************************)
(* The state of one run of main().                                         *)
(***************************************************************************)
VARIABLES
    args,              \* the parsed options of the command line
    pc,                \* where main() stands
    error,             \* the exception that ended main(), or "none"
    usernames,         \* the list of usernames; until line 56 it is the
                       \* very list args.usernames
    platforms,         \* the list of selected platforms
    prefetch,          \* the state of each util.prerequest call of gather
    platform_queries,  \* the checks, one per (username, platform)
    task,              \* the state of each check
    results,           \* username -> list of responses
    exceptions,        \* the recovered failures
    out                \* what has been printed

vars == <<args, pc, error, usernames, platforms, prefetch, platform_queries,
          task, results, exceptions, out>>

RestrictLists == {NoRestrict} \cup SeqsUpTo(RestrictNames, MaxRestrict)

Truthy(list) == list # NoRestrict /\ list # <<>>

\* how many checks a command line asks for
Demand(positional, restrict) ==
    Len(Dedup(positional))
        * (IF Truthy(restrict) THEN Len(restrict) ELSE Len(Platforms))

Init ==
    /\ args \in [input_file : InputFiles,
                 restrict : RestrictLists,
                 cache_tokens : BOOLEAN,
                 available_only : BOOLEAN]
    /\ usernames \in SeqsUpTo(UsernamePool, MaxArgs)
    /\ Demand(usernames, args.restrict) <= MaxTasks
    /\ pc = "parse"
    /\ error = "none"
    /\ platforms = <<>>
    /\ prefetch = <<>>
    /\ platform_queries = <<>>
    /\ task = <<>>
    /\ results = [u \in UsernamePool |-> <<>>]
    /\ exceptions = <<>>
    /\ out = <<>>

\* an exception leaves main()
Raise(kind) ==
    /\ pc' = "aborted"
    /\ error' = kind

(***************************************************************************)
(* Lines 40-46: the usernames.                                             *)
(***************************************************************************)
ReadUsernames ==
    /\ pc = "parse"
    /\ IF args.input_file # NoFile
       THEN \* args.input is no attribute of the namespace
            Raise("AttributeError")
       ELSE IF usernames = <<>>
       THEN Raise("ValueError")
       ELSE pc' = "select" /\ error' = error
    /\ UNCHANGED <<args, usernames, platforms, prefetch, platform_queries,
                   task, results, exceptions, out>>

(***************************************************************************)
(* Lines 47-56: the platforms, and the deduplication of the usernames.     *)
(***************************************************************************)
Selected(restrict) == [i \in 1..Len(restrict) |-> Upper(restrict[i])]

\* a loop that passes over the test of line 50
AllKnownUnchecked(restrict) == TRUE

\* line 50 holds of every word, so that line 53 is not reached
AllKnown(restrict) ==
    \A i \in 1..Len(restrict) : Upper(restrict[i]) \in PlatformNames

SelectPlatforms ==
    /\ pc = "select"
    /\ IF Truthy(args.restrict)
       THEN IF AllKnown(args.restrict)
            THEN /\ platforms' = Selected(args.restrict)
                 /\ usernames' = Dedup(usernames)
                 /\ pc' = "session"
                 /\ error' = error
            ELSE /\ Raise("ValueError")
                 /\ UNCHANGED <<platforms, usernames>>
       ELSE /\ platforms' = Platforms
            /\ usernames' = Dedup(usernames)
            /\ pc' = "session"
            /\ error' = error
    /\ UNCHANGED <<args, prefetch, platform_queries, task, results,
                   exceptions, out>>

(***************************************************************************)
(* Lines 58-62: the session, and the token prefetch when --cache-tokens.   *)
(***************************************************************************)
EnterSession ==
    /\ pc = "session"
    /\ IF args.cache_tokens
       THEN /\ prefetch' = [i \in 1..Len(platforms) |-> "pending"]
            /\ pc' = "prefetch"
       ELSE /\ prefetch' = prefetch
            /\ pc' = "launch"
    /\ UNCHANGED <<args, error, usernames, platforms, platform_queries,
                   task, results, exceptions, out>>

\* one util.prerequest call of the gather returns
PrefetchReturn(i) ==
    /\ pc = "prefetch"
    /\ prefetch[i] = "pending"
    /\ prefetch' = [prefetch EXCEPT ![i] = "returned"]
    /\ UNCHANGED <<args, pc, error, usernames, platforms, platform_queries,
                   task, results, exceptions, out>>

\* one util.prerequest call of the gather raises
PrefetchRaise(i) ==
    /\ pc = "prefetch"
    /\ prefetch[i] = "pending"
    /\ prefetch' = [prefetch EXCEPT ![i] = "raised"]
    /\ UNCHANGED <<args, pc, error, usernames, platforms, platform_queries,
                   task, results, exceptions, out>>

\* a wait that ends with the first call to return
GatherDoneFirst(calls) == \E i \in 1..Len(calls) : calls[i] = "returned"

\* the gather's future has its result once every call has returned
GatherDone(calls) == \A i \in 1..Len(calls) : calls[i] = "returned"

\* await asyncio.gather(...) returns
GatherReturn ==
    /\ pc = "prefetch"
    /\ GatherDone(prefetch)
    /\ pc' = "launch"
    /\ UNCHANGED <<args, error, usernames, platforms, prefetch,
                   platform_queries, task, results, exceptions,
                   out>>

\* await asyncio.gather(...) raises as soon as one call has raised
\* (return_exceptions is not set), and nothing in main() catches it
GatherRaise ==
    /\ pc = "prefetch"
    /\ \E i \in 1..Len(prefetch) : prefetch[i] = "raised"
    /\ \E kind \in ExceptionKinds : Raise(kind)
    /\ UNCHANGED <<args, usernames, platforms, prefetch, platform_queries,
                   task, results, exceptions, out>>

(***************************************************************************)
(* Lines 63-66: the checks are created, username by username, and          *)
(* as_completed schedules them all.                                        *)
(***************************************************************************)
Queries(us, ps) ==
    [k \in 1..(Len(us) * Len(ps)) |->
        [username |-> us[((k - 1) \div Len(ps)) + 1],
         platform |-> ps[((k - 1) % Len(ps)) + 1]]]

Launch ==
    /\ pc = "launch"
    /\ platform_queries' = Queries(usernames, platforms)
    /\ task' = [k \in 1..(Len(usernames) * Len(platforms)) |-> "running"]
    /\ pc' = "fanout"
    /\ UNCHANGED <<args, error, usernames, platforms, prefetch, results,
                   exceptions, out>>

(***************************************************************************)
(* Lines 66-73: one turn of the loop over as_completed, which hands the    *)
(* checks over in the order they complete, whatever that order is.         *)
(***************************************************************************)
\* a loop that breaks at the first recorded failure
LoopNextBreak(tasks) ==
    IF \/ \A k \in 1..Len(tasks) : tasks[k] # "running"
       \/ \E k \in 1..Len(tasks) : tasks[k] = "failure"
    THEN "report" ELSE "fanout"

\* the loop ends after len(platform_queries) futures
LoopNext(tasks) ==
    IF \A k \in 1..Len(tasks) : tasks[k] # "running"
    THEN "report" ELSE "fanout"

\* check i is the next to complete, and await future returns a response;
\* the response names the username and the platform the check was made for
ConsumeResponse(i, valid, success, message) ==
    /\ pc = "fanout"
    /\ task[i] = "running"
    /\ LET response == [username |-> platform_queries[i].username,
                        platform |-> platform_queries[i].platform,
                        valid |-> valid,
                        success |-> success,
                        message |-> message]
           kept == Retained(args.available_only, response)
           tasks == [task EXCEPT ![i] = IF kept THEN "result" ELSE "filtered"]
       IN /\ results' = IF kept
                        THEN [results EXCEPT ![response.username] =
                                  Append(@, response)]
                        ELSE results
          /\ task' = tasks
          /\ pc' = LoopNext(tasks)
    /\ UNCHANGED <<args, error, usernames, platforms, prefetch,
                   platform_queries, exceptions, out>>

\* a loop that records a failure and also files it under the username
ConsumeExceptionAsResult(i, kind) ==
    /\ pc = "fanout"
    /\ task[i] = "running"
    /\ IF kind \in {"ClientError", "KeyError"}
       THEN LET tasks == [task EXCEPT ![i] = "failure"]
            IN /\ exceptions' = Append(exceptions, kind)
               /\ results' = [results EXCEPT ![platform_queries[i].username] =
                       Append(@, [username |-> platform_queries[i].username,
                                  platform |-> platform_queries[i].platform,
                                  valid |-> FALSE, success |-> FALSE,
                                  message |-> "m1"])]
               /\ task' = tasks
               /\ pc' = IF \A k \in 1..Len(tasks) : tasks[k] # "running"
                        THEN "report" ELSE "fanout"
               /\ error' = error
       ELSE /\ pc' = "aborted"
            /\ error' = kind
            /\ task' = [task EXCEPT ![i] = "raised"]
            /\ exceptions' = exceptions
            /\ results' = results
    /\ UNCHANGED <<args, usernames, platforms, prefetch, platform_queries,
                   out>>

\* check i is the next to complete, and await future raises
ConsumeException(i, kind) ==
    /\ pc = "fanout"
    /\ task[i] = "running"
    /\ IF kind \in Caught
       THEN LET tasks == [task EXCEPT ![i] = "failure"]
            IN /\ exceptions' = RecordFailure(exceptions, kind)
               /\ task' = tasks
               /\ pc' = LoopNext(tasks)
               /\ error' = error
       ELSE /\ Raise(kind)
            /\ task' = [task EXCEPT ![i] = "raised"]
            /\ exceptions' = exceptions
    /\ UNCHANGED <<args, usernames, platforms, prefetch, platform_queries,
                   results, out>>

(***************************************************************************)
(* Lines 74-91: one block per username; lines 92-93: the failures and the  *)
(* summary.                                                                *)
(***************************************************************************)
\* line 91: the message is printed for a response that is not valid
Line(response) ==
    [platform |-> response.platform,
     valid |-> response.valid,
     success |-> response.success,
     text |-> IF ~response.valid THEN response.message ELSE ""]

\* a report whose print of the failures sits inside the loop over usernames
ReportUsernameWithFailures ==
    /\ pc = "report"
    /\ LET k == Cardinality({n \in 1..Len(out) : out[n].kind = "block"}) + 1
           username == usernames[k]
           responses == SortByValidSuccess(SortByName(results[username]))
       IN /\ results' = [results EXCEPT ![username] = responses]
          /\ out' = out \o
                 <<[stream |-> "stdout", kind |-> "block",
                    username |-> username,
                    lines |-> [n \in 1..Len(responses) |->
                                  [platform |-> responses[n].platform,
                                   valid |-> responses[n].valid,
                                   success |-> responses[n].success,
                                   text |-> IF ~responses[n].valid
                                            THEN responses[n].message
                                            ELSE ""]]],
                   [stream |-> "stderr", kind |-> "failures",
                    username |-> "", lines |-> exceptions]>>
          /\ pc' = IF k = Len(usernames) THEN "trailer" ELSE "report"
    /\ UNCHANGED <<args, error, usernames, platforms, prefetch,
                   platform_queries, task, exceptions>>

ReportUsername ==
    /\ pc = "report"
    /\ LET k == Len(out) + 1
           username == usernames[k]
           responses == SortResponses(results[username])
       IN /\ results' = [results EXCEPT ![username] = responses]
          /\ out' = Append(out,
                 [stream |-> "stdout", kind |-> "block",
                  username |-> username,
                  lines |-> [n \in 1..Len(responses) |-> Line(responses[n])]])
          /\ pc' = IF k = Len(usernames) THEN "trailer" ELSE "report"
    /\ UNCHANGED <<args, error, usernames, platforms, prefetch,
                   platform_queries, task, exceptions>>

\* a trailer placed in a finally clause: it is printed although an
\* exception is leaving main()
PrintTrailerFinally ==
    /\ pc = "trailer" \/ (pc = "aborted" /\ task # <<>> /\ out = <<>>)
    /\ out' = out \o
          <<[stream |-> "stderr", kind |-> "failures", username |-> "",
             lines |-> exceptions],
            [stream |-> "stdout", kind |-> "summary", username |-> "",
             lines |-> <<Len(platform_queries)>>]>>
    /\ pc' = IF pc = "trailer" THEN "done" ELSE pc
    /\ UNCHANGED <<args, error, usernames, platforms, prefetch,
                   platform_queries, task, results, exceptions>>

PrintTrailer ==
    /\ pc = "trailer"
    /\ out' = out \o
          <<[stream |-> "stderr", kind |-> "failures", username |-> "",
             lines |-> exceptions],
            [stream |-> "stdout", kind |-> "summary", username |-> "",
             lines |-> <<Len(platform_queries)>>]>>
    /\ pc' = "done"
    /\ UNCHANGED <<args, error, usernames, platforms, prefetch,
                   platform_queries, task, results, exceptions>>

Next ==
    \/ ReadUsernames
    \/ SelectPlatforms
    \/ EnterSession
    \/ \E i \in 1..Len(prefetch) : PrefetchReturn(i)
    \/ \E i \in 1..Len(prefetch) : PrefetchRaise(i)
    \/ GatherReturn
    \/ GatherRaise
    \/ Launch
    \/ \E i \in 1..Len(task), valid \in BOOLEAN, success \in BOOLEAN :
           \E message \in MessagesOf(valid) :
               ConsumeResponse(i, valid, success, message)
    \/ \E i \in 1..Len(task), kind \in ExceptionKinds :
           ConsumeException(i, kind)
    \/ ReportUsername
    \/ PrintTrailer

Spec == Init /\ [][Next]_vars

(***************************************************************************)
(* Vocabulary of the properties.                                           *)
(***************************************************************************)
TasksIn(states) == {k \in 1..Len(task) : task[k] \in states}

TasksOf(username, states) ==
    {k \in TasksIn(states) : platform_queries[k].username = username}

RECURSIVE SumLen(_, _)
SumLen(f, S) ==
    IF S = {} THEN 0
    ELSE LET u == CHOOSE x \in S : TRUE
         IN Len(f[u]) + SumLen(f, S \ {u})

\* the number of QueryResults held in results
ResultCount == SumLen(results, UsernamePool)

\* the loop over as_completed has ended normally
LoopOver == pc \in {"report", "trailer", "done"}

\* the two kinds of exception the spec calls recovered
NetworkOrParse == {"ClientError", "KeyError"}

Blocks == SelectSeq(out, LAMBDA o : o.kind = "block")

\* the three groups the sort law names, in the order it names them
LawGroup(line) ==
    IF ~line.success THEN 3 ELSE IF line.valid THEN 1 ELSE 2

\* every order the elements of s may have arrived in
Orders(s) ==
    {[i \in 1..Len(s) |-> s[f[i]]] :
        f \in {g \in [1..Len(s) -> 1..Len(s)] :
                  \A a, b \in 1..Len(s) : g[a] = g[b] => a = b}}

\* the input errors the spec calls fatal: no username given, a --restrict
\* word that names no platform, an input file that cannot be read
NoUsernameGiven == usernames = <<>> /\ args.input_file = NoFile

UnknownPlatformGiven ==
    /\ args.restrict # NoRestrict
    /\ \E i \in 1..Len(args.restrict) : args.restrict[i] = "bogus"

UnreadableFileGiven == args.input_file = "missing.txt"

\* no prefetch and no check has been started
NoNetworkActivity ==
    /\ prefetch = <<>>
    /\ platform_queries = <<>>
    /\ task = <<>>
    /\ pc \in {"parse", "select", "aborted"}

\* the usernames on the lines of the readable input file
FileLines == <<"bob">>

\* where in the output the failure list has been printed
FailurePrints == {n \in 1..Len(out) : out[n].kind = "failures"}

\* where x first occurs in s
FirstIndex(s, x) == CHOOSE i \in 1..Len(s) : s[i] = x /\ \A j \in 1..(i - 1) : s[j] # x

\* d lists the distinct elements of s, each once, in the order they first
\* occur in s
FirstOccurrences(s, d) ==
    /\ Range(d) = Range(s)
    /\ \A a, b \in 1..Len(d) : a < b =>
           /\ d[a] # d[b]
           /\ FirstIndex(s, d[a]) < FirstIndex(s, d[b])

\* the checks launched for a username on a platform
ChecksOf(username, platform) ==
    {k \in 1..Len(platform_queries) :
        platform_queries[k] = [username |-> username, platform |-> platform]}

\* every username is queried exactly once on every selected platform
QueriedOncePerPlatform ==
    platform_queries # <<>> =>
        \A u \in Range(usernames), p \in Range(platforms) :
            Cardinality(ChecksOf(u, p)) = 1

\* the report holds one block per username, in the order of the usernames
OneBlockPerUsername ==
    pc \in {"trailer", "done"} =>
        /\ Len(Blocks) = Len(usernames)
        /\ \A n \in 1..Len(Blocks) : Blocks[n].username = usernames[n]

\* the registered platform that a word names up to letter case, or "none"
NamedPlatform(word) ==
    CASE word \in {"github", "Github", "GITHUB"} -> "GITHUB"
      [] word \in {"snapchat", "Snapchat", "SNAPCHAT"} -> "SNAPCHAT"
      [] word \in {"instagram", "Instagram", "INSTAGRAM"} -> "INSTAGRAM"
      [] OTHER -> "none"

\* main() has gone past the selection of the platforms (line 55)
PastSelection == pc \notin {"parse", "select", "aborted"} \/ platforms # <<>>

C2_TimeoutIsRecorded ==
    ~(pc = "aborted" /\ error = "TimeoutError" /\ TasksIn({"raised"}) # {})

(***************************************************************************)
(* C3: with token caching, a prefetch that fails does not end the run: the *)
(* checks are still launched after it.                                     *)
(***************************************************************************)
C3_PrefetchFailureTolerated ==
    (pc = "aborted" /\ \E i \in 1..Len(prefetch) : prefetch[i] = "raised")
        => task # <<>>

(***************************************************************************)
(* C4: with token caching, no check exists until the prefetch of every     *)
(* selected platform has resolved; no check runs while a prefetch is       *)
(* pending.                                                                *)
(***************************************************************************)
C4_Barrier ==
    (args.cache_tokens /\ (platform_queries # <<>> \/ task # <<>>)) =>
        /\ Len(prefetch) = Len(platforms)
        /\ \A i \in 1..Len(prefetch) : prefetch[i] \in {"returned", "raised"}

\* checks are running after the prefetch of two platforms
C4_Witness ==
    /\ args.cache_tokens
    /\ Len(prefetch) >= 2
    /\ TasksIn({"running"}) # {}

(***************************************************************************)
(* C5: a network or parse error does not cut the loop short: the error is  *)
(* appended to the failure list and the loop goes on, so the report starts *)
(* only after every launched check has settled.                            *)
(***************************************************************************)
C5_NoShortCircuit ==
    /\ LoopOver => TasksIn({"running"}) = {}
    /\ LoopOver => Len(exceptions) = Cardinality(TasksIn({"failure"}))
    /\ TasksIn({"failure"}) # {} => pc # "aborted" \/ error \notin NetworkOrParse
    /\ (pc = "fanout" /\ task # <<>>) => TasksIn({"running"}) # {}

\* a finished run in which a network error and a parse error were both
\* recorded and a later check still returned
C5_Witness ==
    /\ pc = "done"
    /\ \E a, b \in 1..Len(exceptions) :
           exceptions[a] = "ClientError" /\ exceptions[b] = "KeyError"
    /\ TasksIn({"result"}) # {}

(***************************************************************************)
(* C6: an exception of a check that is neither a network error nor a parse *)
(* error is not caught: it is never appended to the failure list, never    *)
(* becomes a result, and it ends the run.                                  *)
(***************************************************************************)
C6_OthersPropagate ==
    /\ \A n \in 1..Len(exceptions) : exceptions[n] \in NetworkOrParse
    /\ \A k \in TasksIn({"raised"}) :
           /\ pc = "aborted"
           /\ error \in ExceptionKinds \ NetworkOrParse
           /\ out = <<>>
    /\ TasksIn({"raised"}) # {} =>
           /\ Cardinality(TasksIn({"raised"})) = 1
           /\ Len(exceptions) = Cardinality(TasksIn({"failure"}))
           /\ ResultCount = Cardinality(TasksIn({"result"}))
    /\ (task # <<>> /\ pc = "aborted") => TasksIn({"raised"}) # {}

\* a run ended by an exception of another kind, after a failure was recorded
\* and a result kept, with a check still running
C6_Witness ==
    /\ pc = "aborted"
    /\ error = "RuntimeError"
    /\ TasksIn({"raised"}) # {}
    /\ TasksIn({"failure"}) # {}
    /\ TasksIn({"result"}) # {}

(***************************************************************************)
(* C7: results and failures are disjoint: the step that takes a failed     *)
(* check adds nothing to any username's results, and the step that takes a *)
(* response adds nothing to the failure list.                              *)
(***************************************************************************)
C7_Disjoint ==
    [][\A k \in 1..Len(task) :
          /\ (task[k] = "running" /\ task'[k] \in {"failure", "raised"})
                 => results' = results
          /\ (task[k] = "running" /\ task'[k] \in {"result", "filtered"})
                 => exceptions' = exceptions
          /\ (task[k] = "running" /\ task'[k] = "failure")
                 => Len(exceptions') = Len(exceptions) + 1
          /\ (task[k] = "running" /\ task'[k] = "result")
                 => Len(results'[platform_queries[k].username])
                        = Len(results[platform_queries[k].username]) + 1]_vars

\* one username with a result and a recorded failure
C7_Witness ==
    \E u \in UsernamePool :
        /\ TasksOf(u, {"result"}) # {}
        /\ TasksOf(u, {"failure"}) # {}
        /\ pc = "done"

(***************************************************************************)
(* C8: with --available-only, every username's result list holds valid     *)
(* responses only, at every point of the run; and the report has one block *)
(* per requested username, empty for a username with nothing available.    *)
(***************************************************************************)
C8_AvailableOnly ==
    /\ args.available_only =>
           \A u \in UsernamePool : \A n \in 1..Len(results[u]) :
               results[u][n].valid
    /\ pc \in {"trailer", "done"} =>
           /\ Len(Blocks) = Len(usernames)
           /\ \A n \in 1..Len(usernames) :
                  /\ Blocks[n].username = usernames[n]
                  /\ Len(Blocks[n].lines) = Len(results[usernames[n]])
                  /\ args.available_only =>
                         \A m \in 1..Len(Blocks[n].lines) :
                             Blocks[n].lines[m].valid

\* a finished --available-only run of two usernames, one with no response
\* kept and a block of no lines, the other with a response kept
C8_Witness ==
    /\ pc = "done"
    /\ args.available_only
    /\ Len(usernames) = 2
    /\ TasksOf(usernames[1], {"filtered"}) # {}
    /\ Blocks[1].lines = <<>>
    /\ Blocks[2].lines # <<>>

(***************************************************************************)
(* C9: the sort law.  In every printed block, a valid and successful       *)
(* response comes before every successful response that is not valid,      *)
(* which comes before every response that is not successful; among         *)
(* responses of equal (valid, success) the platform names ascend.          *)
(***************************************************************************)
C9_SortLaw ==
    \A b \in 1..Len(Blocks) :
        \A m, n \in 1..Len(Blocks[b].lines) :
            LET first == Blocks[b].lines[m]
                second == Blocks[b].lines[n]
            IN m < n =>
                   /\ LawGroup(first) <= LawGroup(second)
                   /\ (first.valid = second.valid
                           /\ first.success = second.success)
                          => NameOrd(first.platform) <= NameOrd(second.platform)

(***************************************************************************)
(* C10: the report does not depend on the order in which the checks        *)
(* complete: whatever order the responses of a username arrived in, its    *)
(* block is the same sequence of lines.                                    *)
(***************************************************************************)
C10_OrderIndependent ==
    \A b \in 1..Len(Blocks) :
        \A arrival \in Orders(Blocks[b].lines) :
            SortResponses(arrival) = Blocks[b].lines

(***************************************************************************)
(* C11: a fatal input error (no username given, an unknown platform in     *)
(* --restrict, an unreadable input file) ends the program before any       *)
(* network activity: no prefetch and no check is ever started in a run     *)
(* whose input holds such an error, and the run ends with an exception.    *)
(***************************************************************************)
C11_InputErrorsBeforeNetwork ==
    (NoUsernameGiven \/ UnknownPlatformGiven \/ UnreadableFileGiven) =>
        /\ NoNetworkActivity
        /\ pc = "aborted" => error \in {"ValueError", "AttributeError"}

\* a run with usernames and no input file, ended at the unknown platform
C11_Witness ==
    /\ pc = "aborted"
    /\ error = "ValueError"
    /\ usernames # <<>>
    /\ args.input_file = NoFile
    /\ UnknownPlatformGiven
    /\ args.cache_tokens

(***************************************************************************)
(* C12: with --input-file naming a readable file, the usernames on its     *)
(* lines are appended to the positional ones and the program passes the    *)
(* validation of its usernames: once past line 46 the list of usernames    *)
(* ends with the lines of the file, and the run is not ended there.        *)
(***************************************************************************)
C12_InputFileAppended ==
    (args.input_file = "names.txt" /\ pc # "parse") =>
        /\ \A n \in 1..Len(FileLines) : FileLines[n] \in Range(usernames)
        /\ ~(pc = "aborted" /\ platforms = <<>> /\ ~UnknownPlatformGiven)

(***************************************************************************)
(* C13: the recovered failures are printed once, after the block of every  *)
(* username: no print of the failure list comes before or between the      *)
(* blocks, none comes twice, and a finished run has printed the list.      *)
(***************************************************************************)
C13_FailuresOnceAfterBlocks ==
    /\ Cardinality(FailurePrints) <= 1
    /\ \A f \in FailurePrints :
           /\ \A n \in 1..Len(out) : out[n].kind = "block" => n < f
           /\ Len(Blocks) = Len(usernames)
           /\ out[f].lines = exceptions
           /\ out[f].stream = "stderr"
    /\ pc = "report" => FailurePrints = {}
    /\ pc = "done" => Cardinality(FailurePrints) = 1

\* a finished run of two usernames that recorded a failure
C13_Witness ==
    /\ pc = "done"
    /\ Len(Blocks) = 2
    /\ exceptions # <<>>
    /\ FailurePrints # {}

(***************************************************************************)
(* C14: the usernames are deduplicated in the order of first occurrence:   *)
(* line 56 leaves each distinct username once, in that order; each is then *)
(* queried exactly once per platform; and the report holds exactly one     *)
(* block per distinct username, in that order, whatever the order the      *)
(* checks completed in.                                                    *)
(***************************************************************************)
C14_DedupOncePerPlatform ==
    [][/\ (pc = "select" /\ pc' = "session")
              => FirstOccurrences(usernames, usernames')
       /\ QueriedOncePerPlatform'
       /\ OneBlockPerUsername']_vars

(***************************************************************************)
(* C15: the lookup of the --restrict words is case-insensitive: a word     *)
(* that equals a registered platform's name up to letter case selects that *)
(* platform; a word that matches no registered platform raises the         *)
(* invalid-platform error; with no restriction list every registered       *)
(* platform is selected.                                                   *)
(***************************************************************************)
C15_CaseInsensitiveLookup ==
    /\ (PastSelection /\ Truthy(args.restrict)) =>
           /\ Len(platforms) = Len(args.restrict)
           /\ \A i \in 1..Len(platforms) :
                  platforms[i] = NamedPlatform(args.restrict[i])
    /\ (PastSelection /\ ~Truthy(args.restrict)) => platforms = Platforms
    /\ (Truthy(args.restrict)
            /\ \E i \in 1..Len(args.restrict) :
                   NamedPlatform(args.restrict[i]) = "none") =>
           /\ ~PastSelection
           /\ (pc = "aborted" /\ usernames # <<>> /\ args.input_file = NoFile)
                  => error = "ValueError"
    /\ (Truthy(args.restrict)
            /\ \A i \in 1..Len(args.restrict) :
                   NamedPlatform(args.restrict[i]) # "none"
            /\ usernames # <<>> /\ args.input_file = NoFile) =>
           ~(pc = "aborted" /\ platforms = <<>>)

\* a run that selected GitHub and Snapchat by words in lower and mixed case
C15_Witness ==
    /\ args.restrict = <<"github", "Snapchat">>
    /\ platforms = <<"GITHUB", "SNAPCHAT">>
    /\ pc = "done"

(***************************************************************************)
(* C16: the task list is the cross product of the deduplicated usernames   *)
(* and the selected platforms: its size is |usernames| x |platforms| and   *)
(* each (username, platform) pair occurs in it exactly once, whatever the  *)
(* --restrict list, one that names a platform more than once included.     *)
(***************************************************************************)
C16_CrossProductOnce ==
    platform_queries # <<>> =>
        /\ Len(platform_queries)
               = Cardinality(Range(usernames)) * Cardinality(Range(platforms))
        /\ Range(platform_queries)
               = [username : Range(usernames), platform : Range(platforms)]
        /\ \A a, b \in 1..Len(platform_queries) :
               platform_queries[a] = platform_queries[b] => a = b

(***************************************************************************)
(* C17: no block of the report is printed before every launched check has  *)
(* settled, and a run ended by an exception that is not caught prints no   *)
(* block and no failure summary, whatever had completed before.            *)
(***************************************************************************)
C17_NoReportBeforeAllSettled ==
    /\ out # <<>> =>
           /\ task # <<>>
           /\ TasksIn({"result", "filtered", "failure"}) = 1..Len(task)
    /\ pc = "report" => TasksIn({"running", "raised"}) = {}
    /\ pc = "aborted" => out = <<>>

\* a run ended by a timeout after one check had returned a response, with a
\* third still running, and nothing printed
C17_Witness ==
    /\ pc = "aborted"
    /\ error = "TimeoutError"
    /\ TasksIn({"result"}) # {}
    /\ TasksIn({"running"}) # {}
    /\ out = <<>>

=============================================================================
